---- MODULE Spec2Model ----
(***************************************************************************)
(* Flashcard decks and the SM-2 review scheduler of                        *)
(* app/crud/flashcard.py, over the tables of app/models/flashcard.py.      *)
(*                                                                         *)
(* Units.  ease_factor is a Float column; here it is kept in hundredths    *)
(* (2.5 is 250).  Every constant of the ease update is a multiple of 0.01, *)
(* so the hundredths value is the exact decimal the double approximates;   *)
(* int(interval * ease_factor) is then the integer quotient by 100.  The   *)
(* double evaluation of update_review and this integer evaluation give the *)
(* same interval, repetition and (to 1e-9) ease_factor on every review     *)
(* sequence of length <= 8 from a new card.                                *)
(* Time is counted in days.                                                *)
(***************************************************************************)
EXTENDS Integers, Sequences, FiniteSets, TLC

\* ---- bounds of the model ----
MaxCards == 2
MaxDecks == 1
MaxReviews == 2
MaxTime == 1
MaxTrace == 3
NumSessions == 2
MaxDueDecks == 2
MaxLimit == 2
MaxBigDeck == 101
MaxStatCards == 3
MaxStatReviews == 4
MaxLongRun == 14
MaxLoneCards == 1
MaxElapsed == 6
MaxSkip == 1
MaxOverlap == 1
MaxTokens == 3
MaxFloorRun == 6

CardIds == 1..MaxCards
DeckIds == 1..MaxDecks
Sessions == 1..NumSessions
Texts == {"p", "q"}
None == "None"

VARIABLES
    decks,        \* table decks: id -> row
    cards,        \* table flashcards: id -> row
    nextDeckId,   \* next primary key of decks
    nextCardId,   \* next primary key of flashcards
    nextToken,    \* number of share tokens drawn so far
    now,          \* datetime.now(timezone.utc), in days
    fkEnforced,   \* whether the database enforces flashcards.deck_id -> decks.id
    log,          \* per card, the reviews applied: what each saw and returned
    sessions,     \* per request session of update_review: its place and loaded row
    study,        \* per request session of start_study_session: its place and due rows
    response,     \* what the last step returned to its caller
    stats,        \* per request session of get_study_stats: its place and counts so far
    edits         \* per request session of update_deck: its place and loaded row

vars == <<decks, cards, nextDeckId, nextCardId, nextToken, now, fkEnforced, log, sessions,
          study, response, stats, edits>>

Max(a, b) == IF a >= b THEN a ELSE b

\* ---- schemas (app/schemas/flashcard.py) ----

\* ReviewUpdate.quality: int, ge=0, le=5
MinQuality == 0
MaxQuality == 5
Qualities == MinQuality..MaxQuality

\* A request body for POST cards: the declared fields, and possibly keys the
\* schema does not declare (a caller trying to set review state).
NoExtra == [set |-> FALSE, interval |-> 0, repetition |-> 0, ease_factor |-> 0, next_review |-> 0]
SomeExtra == [set |-> TRUE, interval |-> 40, repetition |-> 3, ease_factor |-> 100, next_review |-> 99]
CreateBodies == [front : Texts, back : {"p"}, deck_id : DeckIds, extra : {NoExtra, SomeExtra}]

\* FlashcardCreate(...).model_dump(): only front, back and deck_id are fields.
FlashcardCreateDump(body) == [front |-> body.front, back |-> body.back, deck_id |-> body.deck_id]

\* FlashcardUpdate: front and back, each optional.
UpdateBodies == [front : Texts \cup {None}, back : Texts \cup {None}]

\* DeckCreate / DeckUpdate: is_public (title, subject and level are text the
\* operations carry and never read).
DeckCreateBodies == [is_public : BOOLEAN]
DeckUpdateBodies == [is_public : {"True", "False", None}]

\* ---- models (app/models/flashcard.py) ----

DefaultInterval == 0
DefaultRepetition == 0
\* ease_factor default 2.5, in hundredths
DefaultEase == 250

NewFlashcardDueTomorrow(data, t) ==
    [deck_id |-> data.deck_id, front |-> data.front, back |-> data.back,
     next_review |-> t + 1, interval |-> DefaultInterval,
     repetition |-> DefaultRepetition, ease_factor |-> DefaultEase]

\* Flashcard(**data) inserted at time t: column defaults fill the review state,
\* and next_review is the CURRENT_TIMESTAMP of the insert.
NewFlashcard(data, t) ==
    [deck_id |-> data.deck_id, front |-> data.front, back |-> data.back,
     next_review |-> t, interval |-> DefaultInterval,
     repetition |-> DefaultRepetition, ease_factor |-> DefaultEase]

\* The review-state columns of a row.
ReviewState(card) ==
    [interval |-> card.interval, repetition |-> card.repetition,
     ease_factor |-> card.ease_factor, next_review |-> card.next_review]

\* The review state without its timestamp.
Schedule(card) ==
    [interval |-> card.interval, repetition |-> card.repetition,
     ease_factor |-> card.ease_factor]

\* ---- SM-2 (update_review) ----

\* quality < 3 is an incorrect response
PassMark == 3
\* interval after an incorrect response
FailInterval == 1
\* interval after the first and the second correct response
FirstInterval == 1
SecondInterval == 6
\* max(1.3, ...) in hundredths
EaseFloor == 130

\* 0.1 - (5 - quality) * (0.08 + (5 - quality) * 0.02), in hundredths
EaseDelta(quality) == 10 - (5 - quality) * (8 + (5 - quality) * 2)

\* round(interval * ease_factor), Python's round: to nearest, ties to even
RoundedProduct(interval, ease) ==
    LET p == interval * ease
        lo == p \div 100
    IN IF p % 100 > 50 \/ (p % 100 = 50 /\ lo % 2 = 1) THEN lo + 1 ELSE lo

\* int(interval * ease_factor): truncation of the product
GrownInterval(interval, ease) == (interval * ease) \div 100

NewIntervalZeroOnFail(card, quality) ==
    IF quality < PassMark THEN DefaultInterval
    ELSE IF card.repetition = 0 THEN FirstInterval
    ELSE IF card.repetition = 1 THEN SecondInterval
    ELSE GrownInterval(card.interval, card.ease_factor)

NewInterval(card, quality) ==
    IF quality < PassMark THEN FailInterval
    ELSE IF card.repetition = 0 THEN FirstInterval
    ELSE IF card.repetition = 1 THEN SecondInterval
    ELSE GrownInterval(card.interval, card.ease_factor)

NewRepetitionKeptOnFail(card, quality) ==
    IF quality < PassMark THEN card.repetition ELSE card.repetition + 1

NewRepetition(card, quality) ==
    IF quality < PassMark THEN 0 ELSE card.repetition + 1

NewEaseFloorOnFailOnly(ease, quality) ==
    IF quality < PassMark THEN Max(EaseFloor, ease + EaseDelta(quality))
    ELSE ease + EaseDelta(quality)

NewEaseNoBonus(ease, quality) == Max(EaseFloor, ease + EaseDelta(quality) - 10)

NewEasePenaltyOnly(ease, quality) ==
    Max(EaseFloor, ease - (5 - quality) * (8 + (5 - quality) * 2))

NewEaseFloorAtOne(ease, quality) == Max(100, ease + EaseDelta(quality))

NewEase(ease, quality) == Max(EaseFloor, ease + EaseDelta(quality))

\* next_review = now + timedelta(days=interval), interval being the new one
NextReview(interval, t) == t + interval

\* datetime.max (the end of year 9999), in days from the day the clock starts at
MaxDateDays == 2912137

\* now + timedelta(days=interval) raises OverflowError past datetime.max
DateOverflows(card, quality, t) == NextReview(NewInterval(card, quality), t) > MaxDateDays

ReviewedEaseFirst(card, quality, t) ==
    LET eased == [card EXCEPT !.ease_factor = NewEase(card.ease_factor, quality)]
    IN [eased EXCEPT !.interval = NewInterval(eased, quality),
                     !.repetition = NewRepetition(card, quality),
                     !.next_review = NextReview(NewInterval(eased, quality), t)]

ReviewedDueFromOldInterval(card, quality, t) ==
    [card EXCEPT !.interval = NewInterval(card, quality),
                 !.repetition = NewRepetition(card, quality),
                 !.ease_factor = NewEase(card.ease_factor, quality),
                 !.next_review = NextReview(card.interval, t)]

\* The row as update_review leaves its object before the commit.
Reviewed(card, quality, t) ==
    [card EXCEPT !.interval = NewInterval(card, quality),
                 !.repetition = NewRepetition(card, quality),
                 !.ease_factor = NewEase(card.ease_factor, quality),
                 !.next_review = NextReview(NewInterval(card, quality), t)]

\* What a review saw and what it returned.
LogEntry(quality, before, after) ==
    [quality |-> quality, pre |-> Schedule(before), post |-> Schedule(after)]

ReviewsDone == LET RECURSIVE Sum(_)
                   Sum(S) == IF S = {} THEN 0
                             ELSE LET c == CHOOSE x \in S : TRUE
                                  IN Len(log[c]) + Sum(S \ {c})
               IN Sum(DOMAIN log)

\* a session that holds no row
NoRow == [deck_id |-> 0, front |-> "", back |-> "", next_review |-> 0, interval |-> 0,
          repetition |-> 0, ease_factor |-> 0]

IdleSession == [pc |-> "idle", card |-> 0, quality |-> 0, loaded |-> NoRow]

\* a session that has not called start_study_session
IdleStudy == [pc |-> "idle", deck_id |-> 0, limit |-> 0, cards_due |-> <<>>]

\* a session that has not called get_study_stats
IdleStats == [pc |-> "idle", deck_id |-> 0, at |-> 0, pre |-> <<>>, total_cards |-> 0,
              cards_due |-> 0, cards_learning |-> 0, cards_mastered |-> 0]

\* a session that has not called update_deck
IdleEdit == [pc |-> "idle", deck_id |-> 0, body |-> [is_public |-> None],
             loaded |-> [is_public |-> FALSE, share_token |-> 0]]

\* a step that returns nothing this model looks at
NoResponse == [op |-> "none"]

Init ==
    /\ decks = <<>>
    /\ cards = <<>>
    /\ nextDeckId = 1
    /\ nextCardId = 1
    /\ nextToken = 0
    /\ now = 0
    /\ fkEnforced \in BOOLEAN
    /\ log = <<>>
    /\ sessions = [s \in Sessions |-> IdleSession]
    /\ study = [s \in Sessions |-> IdleStudy]
    /\ response = NoResponse
    /\ stats = [s \in Sessions |-> IdleStats]
    /\ edits = [s \in Sessions |-> IdleEdit]

Without(f, k) == [x \in (DOMAIN f) \ {k} |-> f[x]]

\* ---- deck operations ----

\* Deck.generate_share_token: a fresh token unless the deck has one (tokens are
\* numbered from 1; 0 is the NULL share_token)
HasToken(deck) == deck.share_token # 0

WithShareToken(deck) ==
    IF ~HasToken(deck) THEN [deck EXCEPT !.share_token = nextToken + 1] ELSE deck

TokenDrawn(before, after) ==
    IF ~HasToken(before) /\ HasToken(after) THEN nextToken + 1 ELSE nextToken

\* create_deck
CreateDeck(body) ==
    /\ LET d0 == [is_public |-> body.is_public, share_token |-> 0]
           d1 == IF d0.is_public /\ ~HasToken(d0) THEN WithShareToken(d0) ELSE d0
       IN /\ decks' = decks @@ (nextDeckId :> d1)
          /\ nextToken' = TokenDrawn(d0, d1)
    /\ nextDeckId' = nextDeckId + 1
    /\ UNCHANGED <<cards, nextCardId, now, fkEnforced, log, sessions, study, stats, edits>>
    /\ response' = NoResponse

\* update_deck (a missing deck returns None and changes nothing)
UpdateDeck(d, body) ==
    /\ d \in DOMAIN decks
    /\ LET d0 == [decks[d] EXCEPT
                    !.is_public = IF body.is_public # None THEN body.is_public = "True" ELSE @]
           d1 == IF d0.is_public /\ ~HasToken(d0) THEN WithShareToken(d0) ELSE d0
       IN /\ decks' = [decks EXCEPT ![d] = d1]
          /\ nextToken' = TokenDrawn(d0, d1)
    /\ UNCHANGED <<cards, nextDeckId, nextCardId, now, fkEnforced, log, sessions, study, stats, edits>>
    /\ response' = NoResponse

\* generate_share_token
GenerateShareToken(d) ==
    /\ d \in DOMAIN decks
    /\ decks' = [decks EXCEPT ![d] = WithShareToken(decks[d])]
    /\ nextToken' = TokenDrawn(decks[d], WithShareToken(decks[d]))
    /\ UNCHANGED <<cards, nextDeckId, nextCardId, now, fkEnforced, log, sessions, study, stats, edits>>
    /\ response' = NoResponse

\* delete_deck: the deck and, by the cascade of Deck.cards, its cards
DeleteDeck(d) ==
    /\ d \in DOMAIN decks
    /\ decks' = Without(decks, d)
    /\ cards' = [c \in {x \in DOMAIN cards : cards[x].deck_id # d} |-> cards[c]]
    /\ log' = [c \in {x \in DOMAIN cards : cards[x].deck_id # d} |-> log[c]]
    /\ UNCHANGED <<nextDeckId, nextCardId, nextToken, now, fkEnforced, sessions, study, stats, edits>>
    /\ response' = NoResponse

\* ---- flashcard operations ----

\* create_flashcard: an insert that violates an enforced foreign key fails
CreateFlashcard(body) ==
    /\ fkEnforced => body.deck_id \in DOMAIN decks
    /\ cards' = cards @@ (nextCardId :> NewFlashcard(FlashcardCreateDump(body), now))
    /\ log' = log @@ (nextCardId :> <<>>)
    /\ nextCardId' = nextCardId + 1
    /\ UNCHANGED <<decks, nextDeckId, nextToken, now, fkEnforced, sessions, study, stats, edits>>
    /\ response' = NoResponse

UpdateFlashcardRescheduling(c, body) ==
    /\ c \in DOMAIN cards
    /\ cards' = [cards EXCEPT ![c] =
                    [@ EXCEPT !.front = IF body.front # None THEN body.front ELSE @,
                              !.back = IF body.back # None THEN body.back ELSE @,
                              !.interval = DefaultInterval,
                              !.next_review = now]]
    /\ UNCHANGED <<decks, nextDeckId, nextCardId, nextToken, now, fkEnforced, log, sessions, study, stats, edits>>
    /\ response' = NoResponse

\* update_flashcard: setattr for every field given and not None
UpdateFlashcard(c, body) ==
    /\ c \in DOMAIN cards
    /\ cards' = [cards EXCEPT ![c] =
                    [@ EXCEPT !.front = IF body.front # None THEN body.front ELSE @,
                              !.back = IF body.back # None THEN body.back ELSE @]]
    /\ UNCHANGED <<decks, nextDeckId, nextCardId, nextToken, now, fkEnforced, log, sessions, study, stats, edits>>
    /\ response' = NoResponse

\* delete_flashcard
DeleteFlashcard(c) ==
    /\ c \in DOMAIN cards
    /\ cards' = Without(cards, c)
    /\ log' = Without(log, c)
    /\ UNCHANGED <<decks, nextDeckId, nextCardId, nextToken, now, fkEnforced, sessions, study, stats, edits>>
    /\ response' = NoResponse

\* what the caller of update_review gets when the call raises before its commit
ReviewRaised(c, quality) ==
    [op |-> "update_review", card_id |-> c, quality |-> quality, raised |-> "OverflowError"]

\* update_review, run alone from its read to its commit; when line 205 raises,
\* nothing is committed
UpdateReview(c, quality) ==
    /\ c \in DOMAIN cards
    /\ IF DateOverflows(cards[c], quality, now)
       THEN /\ UNCHANGED <<cards, log>>
            /\ response' = ReviewRaised(c, quality)
       ELSE /\ cards' = [cards EXCEPT ![c] = Reviewed(cards[c], quality, now)]
            /\ log' = [log EXCEPT ![c] = Append(@, LogEntry(quality, cards[c], cards'[c]))]
            /\ response' = NoResponse
    /\ UNCHANGED <<decks, nextDeckId, nextCardId, nextToken, now, fkEnforced, sessions, study, stats, edits>>

\* the clock moves
Tick ==
    /\ now' = now + 1
    /\ UNCHANGED <<decks, cards, nextDeckId, nextCardId, nextToken, fkEnforced, log, sessions, study, stats, edits>>
    /\ response' = NoResponse

\* ---- the whole store: every operation, short review histories ----

Next ==
    \/ \E body \in DeckCreateBodies : nextDeckId <= MaxDecks /\ CreateDeck(body)
    \/ \E d \in DeckIds, body \in DeckUpdateBodies : UpdateDeck(d, body)
    \/ \E d \in DeckIds : GenerateShareToken(d)
    \/ \E d \in DeckIds : DeleteDeck(d)
    \/ \E body \in CreateBodies : nextCardId <= MaxCards /\ CreateFlashcard(body)
    \/ \E c \in CardIds, body \in UpdateBodies : UpdateFlashcard(c, body)
    \/ \E c \in CardIds : DeleteFlashcard(c)
    \/ \E c \in CardIds, quality \in Qualities : ReviewsDone < MaxReviews /\ UpdateReview(c, quality)
    \/ now < MaxTime /\ Tick

Spec == Init /\ [][Next]_vars

\* ---- the scheduler: card creations and reviews, longer review histories;
\* ---- the clock stands still, as no review reads it but to stamp next_review ----

PlainBodies == {b \in CreateBodies : b.front = "p" /\ ~b.extra.set}

NextReviews ==
    \/ \E body \in DeckCreateBodies : nextDeckId <= MaxDecks /\ ~body.is_public /\ CreateDeck(body)
    \/ \E body \in PlainBodies : nextCardId <= MaxCards /\ CreateFlashcard(body)
    \/ \E c \in CardIds, quality \in Qualities : ReviewsDone < MaxTrace /\ UpdateReview(c, quality)

SpecReviews == Init /\ [][NextReviews]_vars

\* ---- concurrent reviews: update_review split at its read and its commit ----

FlushedWholeRow(row, loaded, obj) == obj

\* The UPDATE a flush emits sets the columns whose value differs from the loaded one.
Flushed(row, loaded, obj) ==
    [f \in DOMAIN row |-> IF obj[f] # loaded[f] THEN obj[f] ELSE row[f]]

\* update_review up to get_flashcard: the session loads the row
ReviewBegin(s, c, quality) ==
    /\ sessions[s].pc = "idle"
    /\ c \in DOMAIN cards
    /\ sessions' = [sessions EXCEPT ![s] =
                       [pc |-> "loaded", card |-> c, quality |-> quality, loaded |-> cards[c]]]
    /\ UNCHANGED <<decks, cards, nextDeckId, nextCardId, nextToken, now, fkEnforced, log, study, stats, edits>>
    /\ response' = NoResponse

\* update_review from the SM-2 arithmetic to db.commit() and db.refresh()
ReviewCommit(s) ==
    LET ses == sessions[s]
        c == ses.card
    IN /\ ses.pc = "loaded"
       /\ c \in DOMAIN cards
       /\ IF DateOverflows(ses.loaded, ses.quality, now)
          THEN /\ UNCHANGED <<cards, log>>
               /\ sessions' = [sessions EXCEPT ![s].pc = "raised"]
               /\ response' = ReviewRaised(c, ses.quality)
          ELSE /\ cards' = [cards EXCEPT ![c] =
                               Flushed(@, ses.loaded, Reviewed(ses.loaded, ses.quality, now))]
               /\ log' = [log EXCEPT ![c] =
                             Append(@, LogEntry(ses.quality, ses.loaded, cards'[c]))]
               /\ sessions' = [sessions EXCEPT ![s].pc = "done"]
               /\ response' = NoResponse
       /\ UNCHANGED <<decks, nextDeckId, nextCardId, nextToken, now, fkEnforced, study, stats, edits>>

NextConcurrent ==
    \/ \E body \in DeckCreateBodies : nextDeckId <= MaxDecks /\ ~body.is_public /\ CreateDeck(body)
    \/ \E body \in PlainBodies : nextCardId <= MaxCards /\ CreateFlashcard(body)
    \/ \E s \in Sessions, c \in CardIds, quality \in Qualities : ReviewBegin(s, c, quality)
    \/ \E s \in Sessions : ReviewCommit(s)
    \/ now < MaxTime /\ Tick

SpecConcurrent == Init /\ [][NextConcurrent]_vars

\* ---- the review endpoint: review_card, one request run alone ----

HTTP_200_OK == 200
HTTP_201_CREATED == 201
HTTP_403_FORBIDDEN == 403
HTTP_404_NOT_FOUND == 404
HTTP_422_UNPROCESSABLE_ENTITY == 422
HTTP_500_INTERNAL_SERVER_ERROR == 500

\* A request body for POST cards/{card_id}/review/: the quality sent, and whether
\* it is an integer at all (2.5 is sent as quality 2, integral FALSE).
ReviewBodies == [quality : (MinQuality - 1)..(MaxQuality + 1), integral : BOOLEAN]

ValidReviewUpdateNoUpperBound(body) == body.integral /\ body.quality >= MinQuality

\* ReviewUpdate: quality is an int with ge=0 and le=5
ValidReviewUpdate(body) ==
    body.integral /\ body.quality >= MinQuality /\ body.quality <= MaxQuality

ReviewCardStatusOkOnMissing(valid, found) ==
    IF ~valid THEN HTTP_422_UNPROCESSABLE_ENTITY ELSE HTTP_200_OK

\* the status of review_card: the body is validated before the handler runs, and
\* the handler raises 404 when update_review returns None
ReviewCardStatus(valid, found) ==
    IF ~valid THEN HTTP_422_UNPROCESSABLE_ENTITY
    ELSE IF ~found THEN HTTP_404_NOT_FOUND
    ELSE HTTP_200_OK

\* review_card: lookups counts the calls of get_flashcard the request made
ReviewCard(c, body) ==
    LET valid == ValidReviewUpdate(body)
        found == c \in DOMAIN cards
        raises == valid /\ found /\ DateOverflows(cards[c], body.quality, now)
        status == IF raises THEN HTTP_500_INTERNAL_SERVER_ERROR
                  ELSE ReviewCardStatus(valid, found)
    IN /\ response' = [op |-> "review_card", card_id |-> c, body |-> body,
                       status |-> status, lookups |-> IF valid THEN 1 ELSE 0]
       /\ IF valid /\ found /\ ~raises
          THEN /\ cards' = [cards EXCEPT ![c] = Reviewed(cards[c], body.quality, now)]
               /\ log' = [log EXCEPT ![c] =
                             Append(@, LogEntry(body.quality, cards[c], cards'[c]))]
          ELSE UNCHANGED <<cards, log>>
       /\ UNCHANGED <<decks, nextDeckId, nextCardId, nextToken, now, fkEnforced, sessions,
                      study, stats, edits>>

NextApi ==
    \/ \E body \in DeckCreateBodies : nextDeckId <= MaxDecks /\ ~body.is_public /\ CreateDeck(body)
    \/ \E body \in PlainBodies : nextCardId <= MaxCards /\ CreateFlashcard(body)
    \/ \E c \in CardIds : DeleteFlashcard(c)
    \/ \E c \in CardIds, body \in ReviewBodies :
          /\ (ValidReviewUpdate(body) /\ c \in DOMAIN cards) => ReviewsDone < MaxReviews
          /\ ReviewCard(c, body)
    \/ now < MaxTime /\ Tick

SpecApi == Init /\ [][NextApi]_vars

\* ---- the due queue: get_due_cards among creations, reviews and the clock ----

Min(a, b) == IF a <= b THEN a ELSE b

\* deck ids and limits the queries are called with
DueDeckIds == 1..MaxDueDecks
Limits == 1..MaxLimit

DueBodies == [front : {"p"}, back : {"p"}, deck_id : DueDeckIds, extra : {NoExtra}]

DueInIgnoringClock(d, t) == {c \in DOMAIN cards : cards[c].deck_id = d}

\* filter(Flashcard.deck_id == deck_id)
InDeck(d) == {c \in DOMAIN cards : cards[c].deck_id = d}

\* filter(Flashcard.deck_id == deck_id, Flashcard.next_review <= now)
DueIn(d, t) == {c \in InDeck(d) : cards[c].next_review <= t}

\* The results a query over the rows of S may give under
\* order_by(Flashcard.next_review).limit(limit): the first rows of an order that
\* is ascending in next_review; rows of equal next_review come in an order the
\* database chooses.
OrderedLimited(S, limit) ==
    LET n == Min(limit, Cardinality(S))
    IN {s \in [1..n -> S] :
          /\ \A i, j \in 1..n : i < j =>
                /\ s[i] # s[j]
                /\ cards[s[i]].next_review <= cards[s[j]].next_review
          /\ \A c \in S \ {s[i] : i \in 1..n} :
                \A i \in 1..n : cards[s[i]].next_review <= cards[c].next_review}

\* get_due_cards: a read; rows holds the ids of the rows returned, in order
GetDueCards(d, limit) ==
    /\ \E rows \in OrderedLimited(DueIn(d, now), limit) :
          response' = [op |-> "get_due_cards", deck_id |-> d, limit |-> limit, rows |-> rows]
    /\ UNCHANGED <<decks, cards, nextDeckId, nextCardId, nextToken, now, fkEnforced, log,
                   sessions, study, stats, edits>>

NextDue ==
    \/ \E body \in DeckCreateBodies :
          nextDeckId <= MaxDueDecks /\ ~body.is_public /\ CreateDeck(body)
    \/ \E body \in DueBodies : nextCardId <= MaxCards /\ CreateFlashcard(body)
    \/ \E c \in CardIds, quality \in Qualities : ReviewsDone < MaxReviews /\ UpdateReview(c, quality)
    \/ \E d \in DueDeckIds, limit \in Limits : GetDueCards(d, limit)
    \/ now < MaxTime /\ Tick

SpecDue == Init /\ [][NextDue]_vars

\* ---- study sessions: start_study_session ----

\* get_cards_by_deck: limit when the caller passes none
DefaultLimit == 100

\* len(get_cards_by_deck(db, deck_id)): the rows of the deck, cut at the default limit
CardsByDeckCount(d) == Min(DefaultLimit, Cardinality(InDeck(d)))

\* start_study_session up to its access check, for an authenticated caller: 404
\* without the deck; for a deck that is not public the check reads deck.user_id,
\* an attribute Deck does not have, and the request ends in an AttributeError
StudyAccessStatus(d) ==
    IF d \notin DOMAIN decks THEN HTTP_404_NOT_FOUND
    ELSE IF ~decks[d].is_public THEN HTTP_500_INTERNAL_SERVER_ERROR
    ELSE HTTP_200_OK

StudyError(d) == [op |-> "start_study_session", status |-> StudyAccessStatus(d), deck_id |-> d]

\* StudySessionResponse(deck_id, cards_due, total_cards); cards_due holds card ids
StudySessionResponse(d, rows, total) ==
    [op |-> "start_study_session", status |-> HTTP_200_OK, deck_id |-> d,
     cards_due |-> rows, total_cards |-> total]

\* start_study_session, one request run alone
StartStudySession(d, limit) ==
    /\ IF StudyAccessStatus(d) # HTTP_200_OK
       THEN response' = StudyError(d)
       ELSE \E rows \in OrderedLimited(DueIn(d, now), limit) :
               response' = StudySessionResponse(d, rows, CardsByDeckCount(d))
    /\ UNCHANGED <<decks, cards, nextDeckId, nextCardId, nextToken, now, fkEnforced, log,
                   sessions, study, stats, edits>>

\* a deck larger than the default limit of get_cards_by_deck
BigDeckLimits == {1}

NextBigDeck ==
    \/ \E body \in DeckCreateBodies : nextDeckId <= MaxDecks /\ CreateDeck(body)
    \/ \E body \in PlainBodies : nextCardId <= MaxBigDeck /\ CreateFlashcard(body)
    \/ \E d \in DeckIds, limit \in BigDeckLimits : StartStudySession(d, limit)

SpecBigDeck == Init /\ [][NextBigDeck]_vars

\* ---- study sessions among concurrent requests: start_study_session split
\* ---- between its two queries; each query reads the rows committed when it runs ----

\* start_study_session up to get_due_cards
StudyBegin(s, d, limit) ==
    /\ study[s].pc = "idle"
    /\ IF StudyAccessStatus(d) # HTTP_200_OK
       THEN /\ response' = StudyError(d)
            /\ UNCHANGED study
       ELSE /\ \E rows \in OrderedLimited(DueIn(d, now), limit) :
                  study' = [study EXCEPT ![s] = [pc |-> "due_read", deck_id |-> d,
                                                 limit |-> limit, cards_due |-> rows]]
            /\ response' = NoResponse
    /\ UNCHANGED <<decks, cards, nextDeckId, nextCardId, nextToken, now, fkEnforced, log,
                   sessions, stats, edits>>

\* start_study_session from get_cards_by_deck to its return
StudyFinish(s) ==
    /\ study[s].pc = "due_read"
    /\ response' = StudySessionResponse(study[s].deck_id, study[s].cards_due,
                                        CardsByDeckCount(study[s].deck_id))
    /\ study' = [study EXCEPT ![s] = IdleStudy]
    /\ UNCHANGED <<decks, cards, nextDeckId, nextCardId, nextToken, now, fkEnforced, log,
                   sessions, stats, edits>>

NextStudy ==
    \/ \E body \in DeckCreateBodies : nextDeckId <= MaxDecks /\ CreateDeck(body)
    \/ \E body \in PlainBodies : nextCardId <= MaxCards /\ CreateFlashcard(body)
    \/ \E c \in CardIds : DeleteFlashcard(c)
    \/ \E s \in Sessions, d \in DeckIds, limit \in Limits : StudyBegin(s, d, limit)
    \/ \E s \in Sessions : StudyFinish(s)

SpecStudy == Init /\ [][NextStudy]_vars

\* ---- study statistics: get_study_stats, one call run alone ----

\* Flashcard.interval == 0
LearningInterval == 0
\* Flashcard.interval >= 30
MasteredInterval == 30
\* average_ease_factor of a deck without cards: "or 2.5", in hundredths
EmptyDeckEase == 250

LearningByRepetition(d) == {c \in InDeck(d) : cards[c].repetition = 0}

Learning(d) == {c \in InDeck(d) : cards[c].interval = LearningInterval}

Mastered(d) == {c \in InDeck(d) : cards[c].interval >= MasteredInterval}

RECURSIVE SumEase(_)
SumEase(S) ==
    IF S = {} THEN 0
    ELSE LET c == CHOOSE x \in S : TRUE
         IN cards[c].ease_factor + SumEase(S \ {c})

TruncatedMean(sum, n) == {sum \div n}

\* round(float(avg), 2) of avg = sum / n, in hundredths: the integer nearest to
\* sum / n; a mean half-way between two hundredths goes to the side the binary
\* value of avg falls on
RoundedMean(sum, n) ==
    {q \in {sum \div n, sum \div n + 1} :
        2 * (IF q * n >= sum THEN q * n - sum ELSE sum - q * n) <= n}

\* the values of average_ease_factor: avg() is NULL over no rows
AverageEase(d) ==
    IF InDeck(d) = {} THEN {EmptyDeckEase}
    ELSE RoundedMean(SumEase(InDeck(d)), Cardinality(InDeck(d)))

\* get_study_stats: five reads
GetStudyStats(d) ==
    /\ \E avg \in AverageEase(d) :
          response' = [op |-> "get_study_stats", deck_id |-> d,
                       total_cards |-> Cardinality(InDeck(d)),
                       cards_due |-> Cardinality(DueIn(d, now)),
                       cards_learning |-> Cardinality(Learning(d)),
                       cards_mastered |-> Cardinality(Mastered(d)),
                       average_ease_factor |-> avg]
    /\ UNCHANGED <<decks, cards, nextDeckId, nextCardId, nextToken, now, fkEnforced, log,
                   sessions, study, stats, edits>>

\* the qualities reviewed with: an incorrect response and a perfect one
StatQualities == {2, MaxQuality}

NextStats ==
    \/ \E body \in DeckCreateBodies :
          nextDeckId <= MaxDueDecks /\ ~body.is_public /\ CreateDeck(body)
    \/ \E body \in DueBodies : nextCardId <= MaxStatCards /\ CreateFlashcard(body)
    \/ \E c \in 1..MaxStatCards, quality \in StatQualities :
          ReviewsDone < MaxStatReviews /\ UpdateReview(c, quality)
    \/ \E d \in DueDeckIds : GetStudyStats(d)
    \/ now < MaxTime /\ Tick

SpecStats == Init /\ [][NextStats]_vars

\* ---- study statistics among concurrent requests: get_study_stats split at its
\* ---- five queries; each query reads the rows committed when it runs ----

\* get_study_stats up to the count of total_cards; now is read once, here, and
\* pre keeps the rows as they were at this point
StatsBegin(s, d) ==
    /\ stats[s].pc \in {"idle", "done"}
    /\ stats' = [stats EXCEPT ![s] =
                    [IdleStats EXCEPT !.pc = "total_read", !.deck_id = d, !.at = now,
                                      !.pre = cards,
                                      !.total_cards = Cardinality(InDeck(d))]]
    /\ response' = NoResponse
    /\ UNCHANGED <<decks, cards, nextDeckId, nextCardId, nextToken, now, fkEnforced, log,
                   sessions, study, edits>>

\* the count of cards_due
StatsDue(s) ==
    /\ stats[s].pc = "total_read"
    /\ stats' = [stats EXCEPT ![s].pc = "due_read",
                              ![s].cards_due = Cardinality(DueIn(stats[s].deck_id, stats[s].at))]
    /\ response' = NoResponse
    /\ UNCHANGED <<decks, cards, nextDeckId, nextCardId, nextToken, now, fkEnforced, log,
                   sessions, study, edits>>

\* the count of cards_learning
StatsLearning(s) ==
    /\ stats[s].pc = "due_read"
    /\ stats' = [stats EXCEPT ![s].pc = "learning_read",
                              ![s].cards_learning = Cardinality(Learning(stats[s].deck_id))]
    /\ response' = NoResponse
    /\ UNCHANGED <<decks, cards, nextDeckId, nextCardId, nextToken, now, fkEnforced, log,
                   sessions, study, edits>>

\* the count of cards_mastered
StatsMastered(s) ==
    /\ stats[s].pc = "learning_read"
    /\ stats' = [stats EXCEPT ![s].pc = "mastered_read",
                              ![s].cards_mastered = Cardinality(Mastered(stats[s].deck_id))]
    /\ response' = NoResponse
    /\ UNCHANGED <<decks, cards, nextDeckId, nextCardId, nextToken, now, fkEnforced, log,
                   sessions, study, edits>>

\* the average, and the return
StatsFinish(s) ==
    /\ stats[s].pc = "mastered_read"
    /\ \E avg \in AverageEase(stats[s].deck_id) :
          response' = [op |-> "get_study_stats", deck_id |-> stats[s].deck_id,
                       total_cards |-> stats[s].total_cards,
                       cards_due |-> stats[s].cards_due,
                       cards_learning |-> stats[s].cards_learning,
                       cards_mastered |-> stats[s].cards_mastered,
                       average_ease_factor |-> avg, session |-> s]
    /\ stats' = [stats EXCEPT ![s].pc = "done"]
    /\ UNCHANGED <<decks, cards, nextDeckId, nextCardId, nextToken, now, fkEnforced, log,
                   sessions, study, edits>>

StatsInFlight == {s \in Sessions : stats[s].pc \notin {"idle", "done"}}

\* Reviews are what runs beside a get_study_stats call: cards are created while
\* no call is in flight, and each card is reviewed at most once, so that during a
\* call a card has two states at most.
NextStatsConcurrent ==
    \/ \E body \in DeckCreateBodies : nextDeckId <= MaxDecks /\ ~body.is_public /\ CreateDeck(body)
    \/ \E body \in PlainBodies :
          nextCardId <= MaxCards /\ StatsInFlight = {} /\ CreateFlashcard(body)
    \/ \E c \in CardIds, quality \in StatQualities :
          c \in DOMAIN cards /\ log[c] = <<>> /\ UpdateReview(c, quality)
    \/ \E s \in Sessions, d \in DeckIds : StatsBegin(s, d)
    \/ \E s \in Sessions : StatsDue(s)
    \/ \E s \in Sessions : StatsLearning(s)
    \/ \E s \in Sessions : StatsMastered(s)
    \/ \E s \in Sessions : StatsFinish(s)
    \/ now < MaxTime /\ Tick

SpecStatsConcurrent == Init /\ [][NextStatsConcurrent]_vars

\* ---- one card reviewed many times: update_review run after run ----

NextLongRun ==
    \/ \E body \in DeckCreateBodies : nextDeckId <= MaxDecks /\ ~body.is_public /\ CreateDeck(body)
    \/ \E body \in PlainBodies : nextCardId <= MaxLoneCards /\ CreateFlashcard(body)
    \/ \E c \in 1..MaxLoneCards, quality \in StatQualities :
          ReviewsDone < MaxLongRun /\ UpdateReview(c, quality)

SpecLongRun == Init /\ [][NextLongRun]_vars

\* ---- POST decks/{deck_id}/cards: the deck-scoped create ----

\* request bodies: deck_id is a required field of FlashcardCreate, and a client
\* may leave it out or name another deck than the path does
ScopedBodies == [front : {"p"}, back : {"p"}, deck_id : DueDeckIds,
                 has_deck_id : BOOLEAN, extra : {NoExtra}]

\* FlashcardCreate validation: front, back and deck_id are required
ValidFlashcardCreate(body) == body.has_deck_id

\* `not deck or deck.user_id != current_user.id`: a missing deck is refused; on a
\* stored deck the test reads user_id, an attribute Deck does not define, and
\* the read raises AttributeError before any comparison
DeckOwnership(d) == IF d \notin DOMAIN decks THEN "missing" ELSE "raises"

\* create_flashcard of the endpoints: validation, the ownership check on the
\* deck of the path, then crud create_flashcard with the body as it came
CreateFlashcardInDeck(d, body) ==
    LET valid == ValidFlashcardCreate(body)
        owner == DeckOwnership(d)
        stored == valid /\ owner = "owned"
                    /\ (fkEnforced => body.deck_id \in DOMAIN decks)
        status == IF ~valid THEN HTTP_422_UNPROCESSABLE_ENTITY
                  ELSE IF owner = "missing" THEN HTTP_404_NOT_FOUND
                  ELSE IF owner = "raises" THEN HTTP_500_INTERNAL_SERVER_ERROR
                  ELSE IF ~stored THEN HTTP_500_INTERNAL_SERVER_ERROR
                  ELSE HTTP_201_CREATED
    IN /\ response' = [op |-> "create_flashcard", deck_id |-> d, body |-> body,
                       status |-> status,
                       card_id |-> IF stored THEN nextCardId ELSE 0]
       /\ IF stored
          THEN /\ cards' = cards @@ (nextCardId :> NewFlashcard(FlashcardCreateDump(body), now))
               /\ log' = log @@ (nextCardId :> <<>>)
               /\ nextCardId' = nextCardId + 1
          ELSE UNCHANGED <<cards, log, nextCardId>>
       /\ UNCHANGED <<decks, nextDeckId, nextToken, now, fkEnforced, sessions, study, stats, edits>>

NextScoped ==
    \/ \E body \in DeckCreateBodies : nextDeckId <= MaxDueDecks /\ CreateDeck(body)
    \/ \E d \in DueDeckIds, body \in DeckUpdateBodies : UpdateDeck(d, body)
    \/ \E d \in DueDeckIds : DeleteDeck(d)
    \/ \E d \in DueDeckIds, body \in ScopedBodies :
          nextCardId <= MaxCards /\ CreateFlashcardInDeck(d, body)

SpecScoped == Init /\ [][NextScoped]_vars

\* ---- one card taken to the floor of ease_factor and up again ----

\* a blackout and the lowest correct response
FloorQualities == {MinQuality, PassMark}

NextFloor ==
    \/ \E body \in DeckCreateBodies : nextDeckId <= MaxDecks /\ ~body.is_public /\ CreateDeck(body)
    \/ \E body \in PlainBodies : nextCardId <= MaxLoneCards /\ CreateFlashcard(body)
    \/ \E c \in 1..MaxLoneCards, quality \in FloorQualities :
          ReviewsDone < MaxFloorRun /\ UpdateReview(c, quality)

SpecFloor == Init /\ [][NextFloor]_vars

\* ---- a reviewed card and the clock: the three queries that ask what is due;
\* ---- the clock counts days, and no request lasts one ----

\* get_cards_by_deck: a read; the rows of the deck, or its due rows, ordered by
\* next_review, without the first skip of them and limit of them at most
GetCardsByDeck(d, skip, limit, due_only) ==
    /\ \E found \in OrderedLimited(IF due_only THEN DueIn(d, now) ELSE InDeck(d), skip + limit) :
          response' = [op |-> "get_cards_by_deck", deck_id |-> d, skip |-> skip,
                       limit |-> limit, due_only |-> due_only,
                       rows |-> SubSeq(found, skip + 1, Len(found))]
    /\ UNCHANGED <<decks, cards, nextDeckId, nextCardId, nextToken, now, fkEnforced, log,
                   sessions, study, stats, edits>>

NextElapsed ==
    \/ \E body \in DeckCreateBodies : nextDeckId <= MaxDecks /\ ~body.is_public /\ CreateDeck(body)
    \/ \E body \in PlainBodies : nextCardId <= MaxLoneCards /\ CreateFlashcard(body)
    \/ \E c \in 1..MaxLoneCards, quality \in StatQualities :
          ReviewsDone < MaxReviews /\ UpdateReview(c, quality)
    \/ \E s \in 1..MaxOverlap, c \in 1..MaxLoneCards, quality \in StatQualities :
          ReviewBegin(s, c, quality)
    \/ \E s \in 1..MaxOverlap : ReviewCommit(s)
    \/ \E d \in DeckIds, limit \in Limits : GetDueCards(d, limit)
    \/ \E d \in DeckIds, skip \in 0..MaxSkip, limit \in Limits, due_only \in BOOLEAN :
          GetCardsByDeck(d, skip, limit, due_only)
    \/ \E d \in DeckIds : GetStudyStats(d)
    \/ now < MaxElapsed /\ (\A s \in Sessions : sessions[s].pc # "loaded") /\ Tick

SpecElapsed == Init /\ [][NextElapsed]_vars

\* ---- what a review leaves alone: reviews among edits of the cards' texts ----

NextFrame ==
    \/ \E body \in DeckCreateBodies :
          nextDeckId <= MaxDueDecks /\ ~body.is_public /\ CreateDeck(body)
    \/ \E body \in DueBodies : nextCardId <= MaxCards /\ CreateFlashcard(body)
    \/ \E c \in CardIds, body \in UpdateBodies : UpdateFlashcard(c, body)
    \/ \E c \in CardIds, quality \in StatQualities :
          ReviewsDone < MaxReviews /\ UpdateReview(c, quality)
    \/ \E s \in 1..MaxOverlap, c \in CardIds, quality \in StatQualities :
          ReviewBegin(s, c, quality)
    \/ \E s \in 1..MaxOverlap : ReviewCommit(s)

SpecFrame == Init /\ [][NextFrame]_vars

\* ---- sharing: public decks and their tokens, among requests that overlap ----

\* update_deck up to get_deck: the session loads the row
UpdateDeckBegin(s, d, body) ==
    /\ edits[s].pc = "idle"
    /\ d \in DOMAIN decks
    /\ edits' = [edits EXCEPT ![s] =
                    [pc |-> "loaded", deck_id |-> d, body |-> body, loaded |-> decks[d]]]
    /\ UNCHANGED <<decks, cards, nextDeckId, nextCardId, nextToken, now, fkEnforced, log,
                   sessions, study, stats>>
    /\ response' = NoResponse

\* update_deck from its setattr loop to db.commit() and db.refresh(): the flush
\* writes the columns that changed on the loaded object
UpdateDeckCommit(s) ==
    LET ed == edits[s]
        d == ed.deck_id
        d0 == [ed.loaded EXCEPT
                 !.is_public = IF ed.body.is_public # None THEN ed.body.is_public = "True" ELSE @]
        d1 == IF d0.is_public /\ ~HasToken(d0) THEN WithShareToken(d0) ELSE d0
    IN /\ ed.pc = "loaded"
       /\ d \in DOMAIN decks
       /\ decks' = [decks EXCEPT ![d] = Flushed(@, ed.loaded, d1)]
       /\ nextToken' = TokenDrawn(d0, d1)
       /\ edits' = [edits EXCEPT ![s] = IdleEdit]
       /\ UNCHANGED <<cards, nextDeckId, nextCardId, now, fkEnforced, log, sessions, study, stats>>
       /\ response' = NoResponse

\* share_deck: the ownership check, then a token unless the deck has one, and
\* is_public = True
ShareDeck(d) ==
    LET owner == DeckOwnership(d)
        shared == [WithShareToken(decks[d]) EXCEPT !.is_public = TRUE]
        status == IF owner = "missing" THEN HTTP_404_NOT_FOUND
                  ELSE IF owner = "raises" THEN HTTP_500_INTERNAL_SERVER_ERROR
                  ELSE HTTP_200_OK
    IN /\ response' = [op |-> "share_deck", deck_id |-> d, status |-> status]
       /\ IF owner = "owned"
          THEN /\ decks' = [decks EXCEPT ![d] = shared]
               /\ nextToken' = TokenDrawn(decks[d], shared)
          ELSE UNCHANGED <<decks, nextToken>>
       /\ UNCHANGED <<cards, nextDeckId, nextCardId, now, fkEnforced, log, sessions, study,
                      stats, edits>>

\* get_deck_by_token: share_token is unique, so one row at most
DeckByToken(token) == {d \in DOMAIN decks : decks[d].share_token = token}

\* get_shared_deck: a read; no row is 404, a row that is not public 403
GetSharedDeck(token) ==
    LET found == DeckByToken(token)
        status == IF found = {} THEN HTTP_404_NOT_FOUND
                  ELSE IF \E d \in found : ~decks[d].is_public THEN HTTP_403_FORBIDDEN
                  ELSE HTTP_200_OK
    IN /\ response' = [op |-> "get_shared_deck", share_token |-> token, status |-> status]
       /\ UNCHANGED <<decks, cards, nextDeckId, nextCardId, nextToken, now, fkEnforced, log,
                      sessions, study, stats, edits>>

NextSharing ==
    \/ \E body \in DeckCreateBodies : nextDeckId <= MaxDueDecks /\ CreateDeck(body)
    \/ \E d \in DueDeckIds, body \in DeckUpdateBodies : nextToken < MaxTokens /\ UpdateDeck(d, body)
    \/ \E s \in Sessions, d \in DueDeckIds, body \in DeckUpdateBodies :
          nextToken < MaxTokens /\ UpdateDeckBegin(s, d, body)
    \/ \E s \in Sessions : UpdateDeckCommit(s)
    \/ \E d \in DueDeckIds : nextToken < MaxTokens /\ GenerateShareToken(d)
    \/ \E d \in DueDeckIds : ShareDeck(d)
    \/ \E token \in 1..MaxTokens : GetSharedDeck(token)

SpecSharing == Init /\ [][NextSharing]_vars

\* ---- properties ----

Entries(c) == {log[c][i] : i \in 1..Len(log[c])}
LastEntry(c) == log[c][Len(log[c])]
QualitiesOf(c) == [i \in 1..Len(log[c]) |-> log[c][i].quality]
PostsOf(c) == [i \in 1..Len(log[c]) |-> log[c][i].post]
IntervalsOf(c) == [i \in 1..Len(log[c]) |-> log[c][i].post.interval]
Reviewable == {c \in DOMAIN cards : log[c] # <<>>}

\* C1: in every state reached by card creations and reviews with quality 0..5,
\* every stored card has ease_factor >= 1.3 (130 hundredths), after successful
\* reviews as after failed ones.
C1_EaseNeverBelowFloor ==
    \A c \in DOMAIN cards :
        /\ cards[c].ease_factor >= 130
        /\ \A e \in Entries(c) : e.post.ease_factor >= 130

\* C1 witness: a successful review (quality >= 3) whose unclamped result would
\* fall below 1.3 has left the card at exactly 1.3.
C1_Witness ==
    \E c \in Reviewable :
        /\ LastEntry(c).quality >= 3
        /\ LastEntry(c).pre.ease_factor + EaseDelta(LastEntry(c).quality) < 130
        /\ cards[c].ease_factor = 130

\* C2: whatever the prior state, a review with quality 0, 1 or 2 leaves the card
\* with repetition = 0 and interval = 1.
C2_FailResets ==
    \A c \in DOMAIN cards :
        /\ \A e \in Entries(c) :
              e.quality \in {0, 1, 2} => e.post.repetition = 0 /\ e.post.interval = 1
        /\ (c \in Reviewable /\ LastEntry(c).quality \in {0, 1, 2})
              => cards[c].repetition = 0 /\ cards[c].interval = 1

\* C2 witness: a failed review of a card that had two successes behind it.
C2_Witness ==
    \E c \in Reviewable :
        /\ LastEntry(c).quality < 3
        /\ LastEntry(c).pre.repetition = 2
        /\ LastEntry(c).pre.interval = 6
        /\ cards[c].repetition = 0
        /\ cards[c].interval = 1

\* C3 as claimed: a review with quality >= 3 sets interval to 1 from repetition 0,
\* to 6 from repetition 1, and otherwise to the product of the prior interval and
\* the prior ease_factor rounded to nearest; repetition grows by exactly 1.
C3_IntervalRounded ==
    \A c \in DOMAIN cards : \A e \in Entries(c) :
        e.quality >= 3 =>
            /\ e.post.interval =
                  IF e.pre.repetition = 0 THEN 1
                  ELSE IF e.pre.repetition = 1 THEN 6
                  ELSE RoundedProduct(e.pre.interval, e.pre.ease_factor)
            /\ e.post.repetition = e.pre.repetition + 1

\* C3 as amended: the same, with the product truncated to an integer (int()), not
\* rounded.
C3_IntervalTruncated ==
    \A c \in DOMAIN cards : \A e \in Entries(c) :
        e.quality >= 3 =>
            /\ e.post.interval =
                  IF e.pre.repetition = 0 THEN 1
                  ELSE IF e.pre.repetition = 1 THEN 6
                  ELSE (e.pre.interval * e.pre.ease_factor) \div 100
            /\ e.post.repetition = e.pre.repetition + 1
            /\ (e = LastEntry(c) => Schedule(cards[c]) = e.post)

\* C3 witness: a third successful review whose product has a fraction of a half
\* or more (6 * 2.6 = 15.6), stored as 15.
C3_Witness ==
    \E c \in Reviewable :
        /\ LastEntry(c).quality >= 3
        /\ LastEntry(c).pre.repetition = 2
        /\ (LastEntry(c).pre.interval * LastEntry(c).pre.ease_factor) % 100 >= 50
        /\ cards[c].interval = 15
        /\ cards[c].repetition = 3

\* The change of ease_factor for each quality, in hundredths.
EaseTable == <<-80, -54, -32, -14, 0, 10>>

\* C4: on every review, passed or failed, the new ease_factor is
\* max(1.3, old + d) with d = +0.10, 0, -0.14, -0.32, -0.54, -0.80 for quality
\* 5..0, and the interval of that review is computed from the old ease_factor.
C4_EaseUpdate ==
    \A c \in DOMAIN cards : \A e \in Entries(c) :
        /\ e.post.ease_factor =
              Max(130, e.pre.ease_factor + EaseTable[e.quality + 1])
        /\ (e.quality >= 3 /\ e.pre.repetition >= 2) =>
              e.post.interval = (e.pre.interval * e.pre.ease_factor) \div 100
        /\ (e = LastEntry(c) => cards[c].ease_factor = e.post.ease_factor)

\* C4 witness: a review where the old and the new ease_factor give different
\* intervals (6 * 2.6 = 15.6 and 6 * 2.7 = 16.2).
C4_Witness ==
    \E c \in Reviewable :
        LET e == LastEntry(c)
        IN /\ e.quality >= 3
           /\ e.pre.repetition >= 2
           /\ (e.pre.interval * e.pre.ease_factor) \div 100
                 # (e.pre.interval * e.post.ease_factor) \div 100
           /\ cards[c].interval = (e.pre.interval * e.pre.ease_factor) \div 100

\* C5: every stored card has interval >= 0, and interval >= 1 once it has been
\* reviewed, after every review of every sequence.
C5_IntervalBounds ==
    \A c \in DOMAIN cards :
        /\ cards[c].interval >= 0
        /\ \A e \in Entries(c) : e.post.interval >= 1
        /\ c \in Reviewable => cards[c].interval >= 1

\* C5 witness: an unreviewed card at interval 0 beside a card that a failed
\* review has put at interval 1.
C5_Witness ==
    \E c \in Reviewable, d \in DOMAIN cards :
        /\ log[d] = <<>>
        /\ cards[d].interval = 0
        /\ LastEntry(c).quality < 3
        /\ cards[c].interval = 1

\* C6 as claimed: quality 5 three times on a new card gives the intervals
\* 1, 6, 15.
C6_FifteenOnThirdReview ==
    \A c \in DOMAIN cards :
        QualitiesOf(c) = <<5, 5, 5>> => IntervalsOf(c) = <<1, 6, 15>>

\* C6 as amended: quality 5 three times on a new card gives the intervals
\* 1, 6, 16 (ease_factor has grown to 2.7 by the third review), and any two new
\* cards given the same qualities go through the same states.
C6_SixteenOnThirdReview ==
    /\ \A c \in DOMAIN cards :
          /\ QualitiesOf(c) = <<5>> => IntervalsOf(c) = <<1>>
          /\ QualitiesOf(c) = <<5, 5>> => IntervalsOf(c) = <<1, 6>>
          /\ QualitiesOf(c) = <<5, 5, 5>> =>
                IntervalsOf(c) = <<1, 6, 16>> /\ cards[c].interval = 16
    /\ \A c, d \in DOMAIN cards :
          \A n \in 1..Len(log[c]) :
              (n <= Len(log[d]) /\ SubSeq(QualitiesOf(c), 1, n) = SubSeq(QualitiesOf(d), 1, n))
                  => log[c][n] = log[d][n]

\* C6 witness: a card reviewed with quality 5 three times.
C6_Witness ==
    \E c \in DOMAIN cards : QualitiesOf(c) = <<5, 5, 5>> /\ cards[c].interval = 16

\* C7 as claimed: from {interval 0, repetition 0, ease 2.5} the qualities 4, 4, 2
\* give {1, 1, 2.6}, {6, 2, 2.7}, {1, 0, about 2.36}.
C7_ScenarioAsClaimed ==
    \A c \in DOMAIN cards :
        QualitiesOf(c) = <<4, 4, 2>> =>
            /\ PostsOf(c)[1] = [interval |-> 1, repetition |-> 1, ease_factor |-> 260]
            /\ PostsOf(c)[2] = [interval |-> 6, repetition |-> 2, ease_factor |-> 270]
            /\ PostsOf(c)[3].interval = 1
            /\ PostsOf(c)[3].repetition = 0
            /\ PostsOf(c)[3].ease_factor \in 235..237

\* C7 as amended: the same intervals and repetitions, with ease_factor 2.5, 2.5
\* and 2.18 (quality 4 leaves ease_factor unchanged; quality 2 lowers it by 0.32).
C7_Scenario ==
    \A c \in DOMAIN cards :
        QualitiesOf(c) = <<4, 4, 2>> =>
            /\ log[c][1].pre = [interval |-> 0, repetition |-> 0, ease_factor |-> 250]
            /\ PostsOf(c) = << [interval |-> 1, repetition |-> 1, ease_factor |-> 250],
                               [interval |-> 6, repetition |-> 2, ease_factor |-> 250],
                               [interval |-> 1, repetition |-> 0, ease_factor |-> 218] >>
            /\ Schedule(cards[c]) = PostsOf(c)[3]

\* C7 witness: a card reviewed with the qualities 4, 4, 2.
C7_Witness ==
    \E c \in DOMAIN cards : QualitiesOf(c) = <<4, 4, 2>> /\ cards[c].ease_factor = 218

\* C8: a review at time now leaves next_review = now + the interval that review
\* has just computed.
C8_NextReviewFromNewInterval ==
    [][\A c \in (DOMAIN cards) \cap (DOMAIN cards') :
          Len(log'[c]) = Len(log[c]) + 1 =>
              cards'[c].next_review = now + cards'[c].interval]_vars

\* C8 witness: a second successful review, made after the clock has moved, has set
\* next_review six days ahead (the prior interval was 1).
C8_Witness ==
    \E c \in Reviewable :
        /\ now > 0
        /\ LastEntry(c).pre.interval = 1
        /\ cards[c].interval = 6
        /\ cards[c].next_review = now + 6

\* C9: two concurrent reviews of one card leave it as the two reviews applied one
\* after the other, in one order or the other, would.
C9_ReviewsSerializable ==
    \A s, r \in Sessions :
        (/\ s # r
         /\ sessions[s].pc = "done"
         /\ sessions[r].pc = "done"
         /\ sessions[s].card = sessions[r].card
         /\ sessions[s].card \in DOMAIN cards
         /\ Len(log[sessions[s].card]) = 2)
        => LET c == sessions[s].card
               fresh == [cards[c] EXCEPT !.interval = DefaultInterval,
                                         !.repetition = DefaultRepetition,
                                         !.ease_factor = DefaultEase]
               qs == sessions[s].quality
               qr == sessions[r].quality
           IN Schedule(cards[c]) \in
                 { Schedule(Reviewed(Reviewed(fresh, qs, now), qr, now)),
                   Schedule(Reviewed(Reviewed(fresh, qr, now), qs, now)) }

\* C10: the review state of an existing card changes only in a step of
\* update_review on that card, and a created card starts from the column defaults
\* whatever the request body holds.
C10_ReviewStateFrame ==
    [][/\ \A c \in (DOMAIN cards) \cap (DOMAIN cards') :
             ReviewState(cards'[c]) # ReviewState(cards[c])
                 => /\ Len(log'[c]) = Len(log[c]) + 1
                    /\ \E q \in Qualities : cards'[c] = Reviewed(cards[c], q, now)
       /\ \A c \in (DOMAIN cards') \ (DOMAIN cards) :
             ReviewState(cards'[c]) =
                 [interval |-> 0, repetition |-> 0, ease_factor |-> 250, next_review |-> now]
      ]_vars

\* C10 witness: a reviewed card whose front and back have both been rewritten, in
\* a deck that has been made public, still carries the state its last review left.
C10_Witness ==
    \E c \in Reviewable :
        /\ cards[c].front = "q"
        /\ cards[c].back = "q"
        /\ cards[c].deck_id \in DOMAIN decks
        /\ decks[cards[c].deck_id].is_public
        /\ Schedule(cards[c]) = LastEntry(c).post
        /\ cards[c].repetition = 2

\* C11: a card is created with interval 0, repetition 0, ease factor 2.5 and
\* next_review at the time of its creation, and from then until its first review
\* it keeps that state and is due (next_review <= now) at every time.
C11_NewCardDue ==
    /\ [](\A c \in DOMAIN cards :
            log[c] = <<>> =>
                /\ Schedule(cards[c]) = [interval |-> 0, repetition |-> 0, ease_factor |-> 250]
                /\ cards[c].next_review <= now)
    /\ [][\A c \in (DOMAIN cards') \ (DOMAIN cards) : cards'[c].next_review = now]_vars

\* C11 witness: the clock has moved since a card was created, the card has been
\* edited, and it has not been reviewed yet.
C11_Witness ==
    \E c \in DOMAIN cards :
        /\ log[c] = <<>>
        /\ cards[c].next_review < now
        /\ cards[c].front = "q"

\* C12: a review request whose quality is not an integer from 0 to 5 is answered
\* with a validation error, and the step changes no card and no deck.
C12_InvalidQualityRejected ==
    [][(/\ response'.op = "review_card"
        /\ ~(response'.body.integral /\ response'.body.quality \in 0..5))
       => /\ response'.status = 422
          /\ cards' = cards
          /\ log' = log
          /\ decks' = decks
      ]_vars

\* C12 witness: a card reviewed once, then a request with quality 6 for it was
\* answered with the validation error.
C12_Witness ==
    /\ response.op = "review_card"
    /\ response.body = [quality |-> 6, integral |-> TRUE]
    /\ response.status = 422
    /\ response.card_id \in DOMAIN cards
    /\ Len(log[response.card_id]) = 1

\* C13: a well-formed review request for a card id that names no stored card is
\* answered with 404 after a single lookup, and the step changes no card.
C13_MissingCardNotFound ==
    [][(/\ response'.op = "review_card"
        /\ response'.body.integral /\ response'.body.quality \in 0..5
        /\ response'.card_id \notin DOMAIN cards)
       => /\ response'.status = 404
          /\ response'.lookups = 1
          /\ cards' = cards
          /\ log' = log
      ]_vars

\* C13 witness: a request for the id of a deleted card was answered with 404 while
\* another card, reviewed before, is stored.
C13_Witness ==
    /\ response.op = "review_card"
    /\ response.status = 404
    /\ response.card_id < nextCardId
    /\ response.card_id \notin DOMAIN cards
    /\ \E c \in DOMAIN cards : log[c] # <<>>

\* C14: whatever the deck, the time and the limit, get_due_cards returns at most
\* limit cards, each one in the requested deck with next_review <= now, and no
\* due card of the deck that it leaves out has an earlier next_review than one it
\* returns.
C14_DueCardsFilteredAndEarliest ==
    response.op = "get_due_cards" =>
        LET rows == response.rows
            returned == {rows[i] : i \in 1..Len(rows)}
            due == {c \in DOMAIN cards :
                       cards[c].deck_id = response.deck_id /\ cards[c].next_review <= now}
        IN /\ Len(rows) <= response.limit
           /\ Cardinality(returned) = Len(rows)
           /\ returned \subseteq due
           /\ Cardinality(due) > response.limit => Len(rows) = response.limit
           /\ \A r \in returned, c \in due \ returned :
                 cards[r].next_review <= cards[c].next_review

\* C14 witness: two cards of one deck are due at different times, and a query with
\* limit 1 returned the earlier one and left the later one out.
C14_Witness ==
    /\ response.op = "get_due_cards"
    /\ response.limit = 1
    /\ Len(response.rows) = 1
    /\ \E c \in DOMAIN cards :
          /\ cards[c].deck_id = response.deck_id
          /\ cards[c].next_review <= now
          /\ cards[c].next_review > cards[response.rows[1]].next_review

\* C15: the rows get_due_cards returns are in ascending next_review, and rows of
\* equal next_review are in ascending card id.
C15_TiesOrderedById ==
    response.op = "get_due_cards" =>
        \A i, j \in 1..Len(response.rows) : i < j =>
            LET a == response.rows[i]
                b == response.rows[j]
            IN \/ cards[a].next_review < cards[b].next_review
               \/ cards[a].next_review = cards[b].next_review /\ a < b

\* C16: a get_due_cards call that follows another one on the same deck with the
\* same limit, with no step of any kind between them, returns the same rows in
\* the same order.
C16_RepeatedQuerySameResult ==
    [][(/\ response.op = "get_due_cards"
        /\ response'.op = "get_due_cards"
        /\ response'.deck_id = response.deck_id
        /\ response'.limit = response.limit)
       => response'.rows = response.rows
      ]_vars

\* C17: every study-session response reports as total_cards the number of cards
\* stored in the deck, whatever that number is.
C17_TotalCountsEveryCard ==
    (response.op = "start_study_session" /\ response.status = 200) =>
        response.total_cards =
            Cardinality({c \in DOMAIN cards : cards[c].deck_id = response.deck_id})

\* C18: every study-session response has at least as many total_cards as it lists
\* cards_due, other requests creating and deleting cards between its two queries
\* included.
C18_TotalAtLeastDue ==
    (response.op = "start_study_session" /\ response.status = 200) =>
        response.total_cards >= Len(response.cards_due)

\* C19: get_study_stats reports as cards_learning the number of the deck's cards
\* with interval 0, as cards_mastered those with interval >= 30, as cards_due
\* those with next_review <= now and as total_cards all of them, and the call
\* changes no row.
C19_StatsCounts ==
    /\ [](response.op = "get_study_stats" =>
            LET deck == {c \in DOMAIN cards : cards[c].deck_id = response.deck_id}
            IN /\ response.total_cards = Cardinality(deck)
               /\ response.cards_learning = Cardinality({c \in deck : cards[c].interval = 0})
               /\ response.cards_mastered = Cardinality({c \in deck : cards[c].interval >= 30})
               /\ response.cards_due = Cardinality({c \in deck : cards[c].next_review <= now}))
    /\ [][response'.op = "get_study_stats" =>
             cards' = cards /\ decks' = decks /\ log' = log]_vars

\* C19 witness: statistics of a deck that holds a mastered card and two cards
\* never reviewed, while another deck holds no card; the mastered card is not due.
C19_Witness ==
    /\ response.op = "get_study_stats"
    /\ response.cards_mastered = 1
    /\ response.cards_learning = 2
    /\ response.total_cards = 3
    /\ response.cards_due = 2

\* C20 as claimed: an empty deck gives zero counts and 2.5, and a deck with cards
\* gives exactly the arithmetic mean of their ease factors.
C20_AverageIsMean ==
    response.op = "get_study_stats" =>
        LET deck == {c \in DOMAIN cards : cards[c].deck_id = response.deck_id}
        IN IF deck = {}
           THEN /\ response.total_cards = 0 /\ response.cards_due = 0
                /\ response.cards_learning = 0 /\ response.cards_mastered = 0
                /\ response.average_ease_factor = 250
           ELSE response.average_ease_factor * Cardinality(deck) = SumEase(deck)

\* C20: an empty deck gives zero counts and 2.5, and a deck with cards gives the
\* arithmetic mean of their ease factors rounded to two decimals: a hundredth at
\* most half a hundredth away from the mean.
C20_AverageIsRoundedMean ==
    response.op = "get_study_stats" =>
        LET deck == {c \in DOMAIN cards : cards[c].deck_id = response.deck_id}
            n == Cardinality(deck)
            diff == response.average_ease_factor * n - SumEase(deck)
        IN IF deck = {}
           THEN /\ response.total_cards = 0 /\ response.cards_due = 0
                /\ response.cards_learning = 0 /\ response.cards_mastered = 0
                /\ response.average_ease_factor = 250
           ELSE 2 * diff <= n /\ 2 * diff >= -n

\* C20 witness: statistics of a deck of three cards whose mean ease factor is no
\* whole number of hundredths.
C20_Witness ==
    /\ response.op = "get_study_stats"
    /\ response.total_cards = 3
    /\ SumEase({c \in DOMAIN cards : cards[c].deck_id = response.deck_id}) % 3 = 2

\* C21: the counters of a get_study_stats result computed while reviews commit
\* are those of one state per card, the state the card had when the call began
\* or the state it has when the call returns, the same state in every counter;
\* so cards_learning + cards_mastered does not exceed total_cards.
C21_StatsSeeOneStatePerCard ==
    response.op = "get_study_stats" =>
        LET st == stats[response.session]
            deck == {c \in DOMAIN cards : cards[c].deck_id = response.deck_id}
        IN /\ response.cards_learning + response.cards_mastered <= response.total_cards
           /\ \E v \in [deck -> {"pre", "post"}] :
                 LET row(c) == IF v[c] = "post" THEN cards[c] ELSE st.pre[c]
                     n(S) == Cardinality(S)
                 IN /\ response.total_cards = n(deck)
                    /\ response.cards_due = n({c \in deck : row(c).next_review <= st.at})
                    /\ response.cards_learning = n({c \in deck : row(c).interval = 0})
                    /\ response.cards_mastered = n({c \in deck : row(c).interval >= 30})

\* the number of reviews with quality >= 3 at the end of a sequence of qualities
RECURSIVE Streak(_)
Streak(qs) ==
    IF qs = <<>> \/ qs[Len(qs)] < 3 THEN 0
    ELSE 1 + Streak(SubSeq(qs, 1, Len(qs) - 1))

\* C22: in every reachable state the repetition of a card is the number of
\* reviews with quality >= 3 applied to it since its last review with quality
\* < 3, or since its creation, and so is never negative.
C22_RepetitionCountsStreak ==
    \A c \in DOMAIN cards :
        /\ cards[c].repetition = Streak(QualitiesOf(c))
        /\ cards[c].repetition >= 0

\* C23: a review step takes a new card (repetition 0, interval 0) to an interval
\* from 1 to 29, takes no card to interval 0, takes a card to an interval >= 30
\* only from an interval from 1 to 29 and only with quality >= 3, and with
\* quality < 3 takes any card to interval 1 and to the ease factor computed from
\* the one the card had.
C23_CardStateMachine ==
    [][\A c \in (DOMAIN cards) \cap (DOMAIN cards') :
          Len(log'[c]) = Len(log[c]) + 1 =>
             LET before == cards[c]
                 after == cards'[c]
                 q == log'[c][Len(log'[c])].quality
             IN /\ (before.repetition = 0 /\ before.interval = 0) => after.interval \in 1..29
                /\ after.interval >= 1
                /\ (before.interval < 30 /\ after.interval >= 30)
                      => before.interval >= 1 /\ q >= 3
                /\ q < 3 => /\ after.interval = 1
                            /\ after.ease_factor =
                                  Max(130, before.ease_factor + EaseDelta(q))
      ]_vars

\* a card after n more reviews with quality 5, run one after the other
RECURSIVE AfterPerfectReviews(_, _)
AfterPerfectReviews(card, n) ==
    IF n = 0 \/ DateOverflows(card, 5, now) THEN card
    ELSE AfterPerfectReviews(Reviewed(card, 5, now), n - 1)

\* C24: no state of a card is terminal: no update_review call on a stored card
\* with a quality from 0 to 5 fails, and from every state a finite run of
\* reviews with quality 5 (six are enough) takes the card to an interval >= 30.
C24_NoTerminalState ==
    /\ response.op = "update_review" => response.card_id \notin DOMAIN cards
    /\ \A c \in DOMAIN cards : AfterPerfectReviews(cards[c], 6).interval >= 30

\* C25: a deck exclusively owns its cards: every stored card's deck_id names a
\* stored deck, and a step that deletes a deck leaves no card of that deck.
C25_DeckOwnsCards ==
    /\ [](\A c \in DOMAIN cards : cards[c].deck_id \in DOMAIN decks)
    /\ [][\A d \in (DOMAIN decks) \ (DOMAIN decks') :
             \A c \in DOMAIN cards' : cards'[c].deck_id # d]_vars

\* C26: a deck-scoped create on a stored deck, with a body FlashcardCreate
\* accepts, stores a card, and the card is in the deck the path names.
C26_CreatedInPathDeck ==
    (/\ response.op = "create_flashcard"
     /\ response.deck_id \in DOMAIN decks
     /\ ValidFlashcardCreate(response.body))
        => /\ response.status = HTTP_201_CREATED
           /\ response.card_id \in DOMAIN cards
           /\ cards[response.card_id].deck_id = response.deck_id

RowsOf(r) == {r.rows[i] : i \in 1..Len(r.rows)}

\* C28: a review of a card at time t leaves it with an interval of one day at
\* least and due at t + interval; and get_due_cards, get_cards_by_deck with
\* due_only and cards_due of get_study_stats take a card for due at the time of
\* the query exactly when its next_review is not later, so that the card is in
\* none of them before t + 1 and in all of them from t + interval onward.
C28_DueAfterInterval ==
    /\ [](/\ response.op = "get_due_cards" =>
               /\ \A c \in RowsOf(response) : cards[c].next_review <= now
               /\ Len(response.rows) < response.limit =>
                     RowsOf(response) = DueIn(response.deck_id, now)
          /\ (response.op = "get_cards_by_deck" /\ response.due_only) =>
               /\ \A c \in RowsOf(response) : cards[c].next_review <= now
               /\ (response.skip = 0 /\ Len(response.rows) < response.limit) =>
                     RowsOf(response) = DueIn(response.deck_id, now)
          /\ response.op = "get_study_stats" =>
               response.cards_due =
                  Cardinality({c \in InDeck(response.deck_id) : cards[c].next_review <= now}))
    /\ [][\A c \in (DOMAIN cards) \cap (DOMAIN cards') :
             Len(log'[c]) = Len(log[c]) + 1 =>
                /\ cards'[c].interval >= 1
                /\ cards'[c].next_review = now + cards'[c].interval
                /\ \A t \in 0..MaxElapsed :
                      c \in {x \in DOMAIN cards' : cards'[x].next_review <= t}
                         <=> t >= now + cards'[c].interval
         ]_vars

\* C29: a review step on card c leaves c's id, deck_id, front and back as they
\* were, leaves every other card as it was, stores and removes no card, and
\* leaves every deck with the number of cards it had.
C29_ReviewFrame ==
    [][\A c \in DOMAIN cards :
          (c \in DOMAIN log' /\ Len(log'[c]) = Len(log[c]) + 1) =>
             /\ DOMAIN cards' = DOMAIN cards
             /\ cards'[c].deck_id = cards[c].deck_id
             /\ cards'[c].front = cards[c].front
             /\ cards'[c].back = cards[c].back
             /\ \A o \in (DOMAIN cards) \ {c} : cards'[o] = cards[o]
             /\ \A d \in DueDeckIds :
                   Cardinality({x \in DOMAIN cards' : cards'[x].deck_id = d})
                      = Cardinality(InDeck(d))
             /\ decks' = decks
      ]_vars

\* C29 witness: a review has committed on a card whose front was rewritten after
\* the review had loaded it, and the card has the rewritten front; another card,
\* never reviewed, is stored in another deck.
C29_Witness ==
    \E s \in Sessions :
        LET c == sessions[s].card
        IN /\ sessions[s].pc = "done"
           /\ c \in DOMAIN cards
           /\ log[c] # <<>>
           /\ sessions[s].loaded.front = "p"
           /\ cards[c].front = "q"
           /\ \E o \in DOMAIN cards : /\ cards[o].deck_id # cards[c].deck_id
                                      /\ log[o] = <<>>

\* C30: a public deck has a share token; a step never changes or clears the
\* token of a deck that has one, making the deck private included; and
\* get_shared_deck refuses the token of a deck that is not public.
C30_TokenKept ==
    /\ [](/\ \A d \in DOMAIN decks : decks[d].is_public => HasToken(decks[d])
          /\ response.op = "get_shared_deck" =>
                \A d \in DeckByToken(response.share_token) :
                    ~decks[d].is_public => response.status # HTTP_200_OK)
    /\ [][\A d \in (DOMAIN decks) \cap (DOMAIN decks') :
             HasToken(decks[d]) => decks'[d].share_token = decks[d].share_token]_vars

====
